---- MODULE Spec2Model ----
(***************************************************************************)
(* Model of aws-website-deployer.py: one run of main() for the commands   *)
(* deploy, cleanup and status, at the granularity of one action per       *)
(* remote API call.  The remote services answer nondeterministically,     *)
(* constrained by the remote state (stack, the two buckets).  Exceptions  *)
(* carry the two attributes the code inspects: their class and whether    *)
(* their text contains 'does not exist' (CloudFormation) or their error   *)
(* code (S3).                                                              *)
(***************************************************************************)
EXTENDS Integers, Sequences, FiniteSets, TLC

VARIABLES
    command,        \* args.command
    domain,         \* args.domain, a sequence of characters
    website_folder, \* args.website_folder: [given, exists, files]; files in os.walk order
    confirmation,   \* what the operator types at the cleanup prompt
    pc,             \* position of the run in main() and its callees
    exitCode,       \* "running", "0" or "1"
    out,            \* messages printed so far, in order
    calls,          \* remote calls issued so far, in order (waiter polls are counted in attempts)
    operation,      \* deploy_stack's local 'operation': "unset", "CREATE" or "UPDATE"
    waiterName,     \* the waiter obtained from get_waiter, "none" before
    attempts,       \* polls made by the waiter in use
    deployRet,      \* result of deploy_stack: "none", "True", "False"
    uploadRet,      \* result of upload_files: "none", "True", "False"
    cleanupRet,     \* result of cleanup_stack: "none", "True", "False", "raised"
    statusRet,      \* result of get_stack_status: "none", "True", "False", "raised"
    todo,           \* files of the folder walk not yet visited by upload_files
    uploaded,       \* files put into the domain bucket by this run
    bucketIdx,      \* empty_s3_buckets: index in [domain, www.domain]
    page,           \* empty_s3_buckets: keys of the page being processed
    token,          \* empty_s3_buckets: the paginator's continuation point (last key listed)
    emptyResult,    \* empty_s3_buckets: per bucket "none", "emptied", "missing", "warned"
    stackExists,    \* remote: the stack of the derived name exists
    buckets,        \* remote: per bucket [exists, objs], objs the set of its object keys
    remote0,        \* remote state at the start of the run
    probeAnswer,    \* answer to the command's existence probe (describe_stacks), NotAsked before
    lastPoll,       \* status seen by the waiter's latest poll, "none" before
    outputsSeen,    \* what get_stack_outputs returned inside upload_files, "none" before
    peer            \* a second deploy process for the same domain: its own pc, locals and calls

vars == <<command, domain, website_folder, confirmation, pc, exitCode, out, calls,
          operation, waiterName, attempts, deployRet, uploadRet, cleanupRet,
          statusRet, todo, uploaded, bucketIdx, page, token, emptyResult, stackExists,
          buckets, remote0, probeAnswer, lastPoll, outputsSeen, peer>>

----------------------------------------------------------------------------
(* Bounds *)

MaxFiles == 3      \* files in a website folder
MaxObjects == 3    \* objects in a bucket at the start of a cleanup
PageSize == 2      \* keys per page of list_objects_v2

(* Program constants *)

DeployMaxAttempts == 120
DeleteMaxAttempts == 60

----------------------------------------------------------------------------
(* Characters and domains *)

LowerCase == <<"a", "b", "c", "d", "e", "f", "g", "h", "i", "j", "k", "l", "m",
               "n", "o", "p", "q", "r", "s", "t", "u", "v", "w", "x", "y", "z">>
UpperCase == <<"A", "B", "C", "D", "E", "F", "G", "H", "I", "J", "K", "L", "M",
               "N", "O", "P", "Q", "R", "S", "T", "U", "V", "W", "X", "Y", "Z">>

Letters == { LowerCase[i] : i \in 1..26 } \cup { UpperCase[i] : i \in 1..26 }
Digits == {"0", "1", "2", "3", "4", "5", "6", "7", "8", "9"}
Alnum == Letters \cup Digits
AlnumHyphen == Alnum \cup {"-"}

\* Variant: the middle of the label may be empty ({0,61})
validate_domain_ShortLabel(d) ==
    \E n \in {Len(d)} \cup (IF Len(d) > 0 /\ d[Len(d)] = "\n" THEN {Len(d) - 1} ELSE {}) :
        \E k \in 1..n :
            /\ d[k] = "."
            /\ k - 1 >= 2 /\ k - 1 <= 62
            /\ d[1] \in Alnum
            /\ \A i \in 2..(k - 2) : d[i] \in AlnumHyphen
            /\ d[k - 1] \in Alnum
            /\ n - k >= 2
            /\ \A i \in (k + 1)..n : d[i] \in Letters

\* re.match(r'^[a-zA-Z0-9][a-zA-Z0-9-]{1,61}[a-zA-Z0-9]\.[a-zA-Z]{2,}$', domain)
\* n is where the match ends: '$' matches at the end of the string and also
\* just before a newline that ends the string.  k is the position of the dot
\* that ends the label: one character, 1 to 61 characters, one character.
validate_domain(d) ==
    \E n \in {Len(d)} \cup (IF Len(d) > 0 /\ d[Len(d)] = "\n" THEN {Len(d) - 1} ELSE {}) :
        \E k \in 1..n :
            /\ d[k] = "."
            /\ k - 1 >= 3 /\ k - 1 <= 63
            /\ d[1] \in Alnum
            /\ \A i \in 2..(k - 2) : d[i] \in AlnumHyphen
            /\ d[k - 1] \in Alnum
            /\ n - k >= 2
            /\ \A i \in (k + 1)..n : d[i] \in Letters

\* Variant: the dots are kept
get_stack_name_NoReplace(d) ==
    <<"w", "e", "b", "s", "i", "t", "e", "-">> \o d

\* f"website-{domain.replace('.', '-')}"
get_stack_name(d) ==
    <<"w", "e", "b", "s", "i", "t", "e", "-">>
        \o [i \in 1..Len(d) |-> IF d[i] = "." THEN "-" ELSE d[i]]

\* buckets = [domain, f"www.{domain}"]
BucketNames(d) == << d, <<"w", "w", "w", ".">> \o d >>

Domains == { <<"a", "b", "c", ".", "c", "o", "m">>,
             <<"-", "a", "b", ".", "c", "o", "m">>,
             <<"a", "b", "c">> }

----------------------------------------------------------------------------
(* Exceptions raised by the SDK *)

\* cls: exception class; dne: 'does not exist' in str(e); code: e.response['Error']['Code']
CfnErrors == { [cls |-> "ClientError", dne |-> TRUE,  code |-> "ValidationError"],
               [cls |-> "ClientError", dne |-> FALSE, code |-> "AccessDenied"],
               [cls |-> "Other",       dne |-> TRUE,  code |-> "n/a"],
               [cls |-> "Other",       dne |-> FALSE, code |-> "n/a"] }

StackMissing == [cls |-> "ClientError", dne |-> TRUE, code |-> "ValidationError"]

S3Errors == { [cls |-> "ClientError", dne |-> FALSE, code |-> "404"],
              [cls |-> "ClientError", dne |-> FALSE, code |-> "403"],
              [cls |-> "Other",       dne |-> FALSE, code |-> "n/a"] }

BucketMissing == [cls |-> "ClientError", dne |-> FALSE, code |-> "404"]

Ok == [cls |-> "none", dne |-> FALSE, code |-> "n/a"]

NotAsked == [cls |-> "not asked", dne |-> FALSE, code |-> "n/a"]

\* What describe_stacks may answer: a description only if the stack exists,
\* the 'does not exist' error only if it does not, any other error always.
DescribeAnswers ==
    (IF stackExists THEN {Ok} ELSE {StackMissing}) \cup (CfnErrors \ {StackMissing})

\* What head_bucket may answer for bucket b.
HeadAnswers(b) ==
    (IF buckets[b].exists THEN {Ok} ELSE {BucketMissing}) \cup (S3Errors \ {BucketMissing})

\* except ClientError as e: if 'does not exist' in str(e)
IsClientError(e) == e.cls = "ClientError"
SaysDoesNotExist(e) == e.dne

----------------------------------------------------------------------------
(* Website folders: the order of a folder's sequence is the order of os.walk *)

\* file names are sequences of characters, like domains
IndexHtml == <<"i", "n", "d", "e", "x", ".", "h", "t", "m", "l">>
StyleCss == <<"s", "t", "y", "l", "e", ".", "c", "s", "s">>
License == <<"L", "I", "C", "E", "N", "S", "E">>

FileNames == {IndexHtml, StyleCss, License}

RECURSIVE SeqsUpTo(_, _)
SeqsUpTo(S, n) ==
    IF n = 0 THEN { <<>> }
    ELSE LET shorter == SeqsUpTo(S, n - 1)
         IN shorter \cup { Append(s, x) : s \in { t \in shorter : Len(t) = n - 1 }, x \in S }

Distinct(s) == \A i, j \in 1..Len(s) : i # j => s[i] # s[j]

Folders == { s \in SeqsUpTo(FileNames, MaxFiles) : Distinct(s) }

Range(s) == { s[i] : i \in 1..Len(s) }

Call(api, target) == [api |-> api, target |-> target]

ConfirmInputs == {"yes", "no", "YES", "y", "yes ", ""}

NoBucket == [exists |-> FALSE, objs |-> {}]

BucketContents == {NoBucket} \cup { [exists |-> TRUE, objs |-> 1..n] : n \in 0..MaxObjects }

\* args.website_folder is None
NoFolder == [given |-> FALSE, exists |-> FALSE, files |-> <<>>]

\* a path that is not on disk
MissingFolder == [given |-> TRUE, exists |-> FALSE, files |-> <<>>]

FolderArgs == {NoFolder, MissingFolder} \cup { [given |-> TRUE, exists |-> TRUE, files |-> f] : f \in Folders }

\* The second process: not started (pc "off"), or at the start of main()
PeerOff == [pc |-> "off", exitCode |-> "running", probeAnswer |-> NotAsked,
            createAnswer |-> NotAsked, operation |-> "unset", waiterName |-> "none",
            deployRet |-> "none", uploadRet |-> "none",
            calls |-> <<>>, todo |-> <<>>, uploaded |-> <<>>, complete |-> FALSE]

PeerStart == [PeerOff EXCEPT !.pc = "validate"]

----------------------------------------------------------------------------
Init ==
    /\ command \in {"deploy", "cleanup", "status"}
    /\ domain \in Domains
    /\ website_folder \in (IF command = "deploy" THEN FolderArgs ELSE {NoFolder})
    /\ confirmation \in (IF command = "cleanup" THEN ConfirmInputs ELSE {""})
    /\ pc = "validate"
    /\ exitCode = "running"
    /\ out = <<>>
    /\ calls = <<>>
    /\ operation = "unset"
    /\ waiterName = "none"
    /\ attempts = 0
    /\ deployRet = "none"
    /\ uploadRet = "none"
    /\ cleanupRet = "none"
    /\ statusRet = "none"
    /\ todo = <<>>
    /\ uploaded = <<>>
    /\ bucketIdx = 1
    /\ page = {}
    /\ token = 0
    /\ emptyResult = <<"none", "none">>
    /\ stackExists \in BOOLEAN
    /\ buckets \in (IF command = "cleanup"
                    THEN [1..2 -> BucketContents]
                    ELSE { <<NoBucket, NoBucket>> })
    /\ remote0 = [stack |-> stackExists, buckets |-> buckets]
    /\ probeAnswer = NotAsked
    /\ lastPoll = "none"
    /\ outputsSeen = "none"
    /\ peer = PeerOff


----------------------------------------------------------------------------
(* Variable groups *)

args == <<command, domain, website_folder, confirmation>>
remote == <<stackExists, buckets, remote0>>
deployLocals == <<operation, waiterName, attempts, lastPoll, deployRet>>
uploadLocals == <<todo, uploaded, outputsSeen, uploadRet>>
emptyLocals == <<bucketIdx, page, token, emptyResult>>

----------------------------------------------------------------------------
(* main(): pre-flight *)

\* deployer.validate_domain(args.domain): sys.exit(1) unless the pattern matches
ValidateDomain ==
    /\ pc = "validate"
    /\ IF validate_domain(domain)
       THEN /\ pc' = "creds"
            /\ UNCHANGED <<out, exitCode>>
       ELSE /\ out' = Append(out, "ERROR: Invalid domain name format")
            /\ pc' = "done"
            /\ exitCode' = "1"
    /\ UNCHANGED <<peer, args, probeAnswer, remote, deployLocals, uploadLocals, emptyLocals,
                   calls, cleanupRet, statusRet>>

\* The first step of each command once the pre-flight has passed
CommandEntry(c) ==
    CASE c = "deploy" -> "deploy_probe"
      [] c = "cleanup" -> "confirm"
      [] c = "status" -> "status_probe"

\* if not deployer.check_credentials(): sys.exit(1)
CheckCredentials ==
    /\ pc = "creds"
    /\ calls' = Append(calls, Call("get_caller_identity", <<"sts">>))
    /\ \E ok \in BOOLEAN :
        IF ok
        THEN /\ out' = Append(out, "AWS credentials validated")
             /\ pc' = CommandEntry(command)
             /\ UNCHANGED exitCode
        ELSE /\ out' = Append(out, "ERROR: AWS credentials invalid")
             /\ pc' = "done"
             /\ exitCode' = "1"
    /\ UNCHANGED <<peer, args, probeAnswer, remote, deployLocals, uploadLocals, emptyLocals,
                   cleanupRet, statusRet>>

----------------------------------------------------------------------------
(* deploy_stack *)

\* Variant: the class of the exception is not looked at
ProbeRoute_AnyClass(r) ==
    IF r = Ok THEN "update"
    ELSE IF SaysDoesNotExist(r) THEN "create"
    ELSE "fail"

\* The inner try/except of deploy_stack applied to the answer r of a call:
\* no exception goes on, a ClientError saying 'does not exist' goes to
\* create_stack, anything else is re-raised to the outer handler.
ProbeRoute(r) ==
    IF r = Ok THEN "update"
    ELSE IF IsClientError(r) /\ SaysDoesNotExist(r) THEN "create"
    ELSE "fail"

\* Variant: the ceiling is compared off by one
WaitOutcome_OffByOne(status, n, max) ==
    CASE status = "success" -> "return"
      [] status = "failure" -> "raise"
      [] status = "pending" -> IF n > max THEN "raise" ELSE "sleep"

\* botocore's waiter after one more poll: n polls made so far, max the ceiling
WaitOutcome(status, n, max) ==
    CASE status = "success" -> "return"
      [] status = "failure" -> "raise"
      [] status = "pending" -> IF n >= max THEN "raise" ELSE "sleep"

WaiterFor(op) ==
    IF op = "CREATE" THEN "stack_create_complete" ELSE "stack_update_complete"

PollStatuses == {"success", "failure", "pending"}

\* Variant: main does not look at the result of deploy_stack
DeployFails_Continues ==
    /\ out' = Append(out, "ERROR: Stack deployment failed")
    /\ deployRet' = "False"
    /\ pc' = "display"
    /\ UNCHANGED exitCode

\* except Exception as e: print_error(...); return False -- and main exits 1
DeployFails ==
    /\ out' = Append(out, "ERROR: Stack deployment failed")
    /\ deployRet' = "False"
    /\ pc' = "done"
    /\ exitCode' = "1"

\* self.cloudformation.describe_stacks(StackName=stack_name)
DeployProbe ==
    /\ pc = "deploy_probe"
    /\ calls' = Append(calls, Call("describe_stacks", get_stack_name(domain)))
    /\ \E r \in DescribeAnswers :
        /\ probeAnswer' = r
        /\ CASE ProbeRoute(r) = "update" ->
                /\ out' = Append(out, "Stack exists, updating...")
                /\ operation' = "UPDATE"
                /\ pc' = "deploy_update"
                /\ UNCHANGED <<deployRet, exitCode>>
          [] ProbeRoute(r) = "create" ->
                /\ out' = Append(out, "Creating new stack...")
                /\ operation' = "CREATE"
                /\ pc' = "deploy_create"
                /\ UNCHANGED <<deployRet, exitCode>>
          [] ProbeRoute(r) = "fail" ->
                /\ DeployFails
                /\ UNCHANGED operation
    /\ UNCHANGED <<peer, args, remote, waiterName, attempts, lastPoll, uploadLocals, emptyLocals,
                   cleanupRet, statusRet>>

\* self.cloudformation.update_stack(...), inside the same inner try as the probe.
\* An answer 'does not exist' means the stack was deleted by someone else
\* since the probe.
UpdateStack ==
    /\ pc = "deploy_update"
    /\ calls' = Append(calls, Call("update_stack", get_stack_name(domain)))
    /\ \E r \in (IF stackExists THEN {Ok} ELSE {}) \cup CfnErrors :
        /\ stackExists' = (IF r = StackMissing THEN FALSE ELSE stackExists)
        /\ CASE ProbeRoute(r) = "update" ->
                /\ waiterName' = WaiterFor(operation)
                /\ pc' = "deploy_wait"
                /\ UNCHANGED <<out, operation, deployRet, exitCode>>
          [] ProbeRoute(r) = "create" ->
                /\ out' = Append(out, "Creating new stack...")
                /\ operation' = "CREATE"
                /\ pc' = "deploy_create"
                /\ UNCHANGED <<waiterName, deployRet, exitCode>>
          [] ProbeRoute(r) = "fail" ->
                /\ DeployFails
                /\ UNCHANGED <<operation, waiterName>>
    /\ UNCHANGED <<peer, args, probeAnswer, buckets, remote0, attempts, lastPoll, uploadLocals, emptyLocals,
                   cleanupRet, statusRet>>

\* self.cloudformation.create_stack(...), in the except branch: any error
\* goes to the outer handler
CreateStack ==
    /\ pc = "deploy_create"
    /\ calls' = Append(calls, Call("create_stack", get_stack_name(domain)))
    /\ \E r \in (IF stackExists THEN {} ELSE {Ok}) \cup CfnErrors :
        IF r = Ok
        THEN /\ stackExists' = TRUE
             /\ waiterName' = WaiterFor(operation)
             /\ pc' = "deploy_wait"
             /\ UNCHANGED <<out, deployRet, exitCode>>
        ELSE /\ DeployFails
             /\ UNCHANGED <<stackExists, waiterName>>
    /\ UNCHANGED <<peer, args, probeAnswer, buckets, remote0, operation, attempts, lastPoll, uploadLocals,
                   emptyLocals, cleanupRet, statusRet>>

\* waiter.wait(StackName=..., WaiterConfig={'Delay': 30, 'MaxAttempts': 120}):
\* one poll
DeployPoll ==
    /\ pc = "deploy_wait"
    /\ attempts' = attempts + 1
    /\ \E status \in PollStatuses :
        /\ lastPoll' = status
        /\ CASE WaitOutcome(status, attempts + 1, DeployMaxAttempts) = "return" ->
                /\ out' = Append(out, "Infrastructure deployed successfully")
                /\ deployRet' = "True"
                /\ pc' = "display"
                /\ UNCHANGED exitCode
          [] WaitOutcome(status, attempts + 1, DeployMaxAttempts) = "raise" ->
                DeployFails
          [] WaitOutcome(status, attempts + 1, DeployMaxAttempts) = "sleep" ->
                UNCHANGED <<out, deployRet, pc, exitCode>>
    /\ UNCHANGED <<peer, args, probeAnswer, remote, operation, waiterName, uploadLocals, emptyLocals,
                   calls, cleanupRet, statusRet>>

----------------------------------------------------------------------------
(* get_stack_outputs, display_stack_info, upload_files, create_sample_website *)

\* What get_stack_outputs may return: the output mapping with or without the
\* key CloudFrontDistributionId, an empty mapping, or {} after an exception
\* of describe_stacks that it reports itself.
OutputsAnswers ==
    (IF stackExists THEN {"with_id", "without_id", "empty"} ELSE {}) \cup {"error"}

OutputsMessages(a) ==
    IF a = "error" THEN <<"ERROR: Failed to get stack outputs">> ELSE <<>>

\* if not outputs: return
HasOutputs(a) == a \in {"with_id", "without_id"}

\* Variant: the distribution id is never found in the outputs
HasDistributionId_Never(a) == FALSE

\* cloudfront_id = outputs.get('CloudFrontDistributionId'); if cloudfront_id:
HasDistributionId(a) == a = "with_id"

\* deployer.display_stack_info(args.domain)
DisplayStackInfo ==
    /\ pc = "display"
    /\ calls' = Append(calls, Call("describe_stacks", get_stack_name(domain)))
    /\ \E a \in OutputsAnswers :
        out' = out \o OutputsMessages(a)
                   \o (IF HasOutputs(a) THEN <<"Deployment Complete! (stack info)">> ELSE <<>>)
    /\ pc' = "upload_start"
    /\ UNCHANGED <<peer, args, probeAnswer, remote, deployLocals, uploadLocals, emptyLocals,
                   exitCode, cleanupRet, statusRet>>

\* The files written by create_sample_website into its temporary directory
SampleFiles == <<IndexHtml>>

\* upload_files returns v after printing msgs; control goes back to main
\* directly (--website-folder given: exit 1 on False) or through
\* create_sample_website, which drops the result.
UploadReturns(v, msgs) ==
    /\ uploadRet' = v
    /\ IF website_folder.given
       THEN IF v = "False"
            THEN /\ out' = out \o msgs
                 /\ pc' = "done"
                 /\ exitCode' = "1"
            ELSE /\ out' = out \o msgs
                 /\ pc' = "final"
                 /\ UNCHANGED exitCode
       ELSE /\ out' = out \o msgs \o <<"Sample website deployed">>
            /\ pc' = "final"
            /\ UNCHANGED exitCode

\* main's choice between upload_files(folder) and create_sample_website,
\* and the head of upload_files (os.path.exists)
UploadStart ==
    /\ pc = "upload_start"
    /\ IF website_folder.given
       THEN IF website_folder.exists
            THEN /\ todo' = website_folder.files
                 /\ out' = Append(out, "Uploading website files")
                 /\ pc' = "upload_file"
                 /\ UNCHANGED <<uploadRet, exitCode>>
            ELSE /\ UploadReturns("False", <<"ERROR: Website folder does not exist">>)
                 /\ UNCHANGED todo
       ELSE /\ todo' = SampleFiles
            /\ out' = out \o <<"No website folder specified, creating sample website...",
                               "Uploading website files">>
            /\ pc' = "upload_file"
            /\ UNCHANGED <<uploadRet, exitCode>>
    /\ UNCHANGED <<peer, args, probeAnswer, outputsSeen, remote, deployLocals, uploaded, emptyLocals,
                   calls, cleanupRet, statusRet>>

\* str.lower() on the letters of the alphabet
LowerOf ==
    [c \in { UpperCase[i] : i \in 1..26 } |-> LowerCase[CHOOSE i \in 1..26 : UpperCase[i] = c]]

Lower(c) == IF c \in DOMAIN LowerOf THEN LowerOf[c] ELSE c

lower(s) == [i \in 1..Len(s) |-> Lower(s[i])]

\* os.path.splitext(filename)[1]: from the last dot on, unless only dots
\* (or nothing) come before it
splitext_ext(f) ==
    LET dots == { i \in 1..Len(f) : f[i] = "." }
    IN IF dots = {} THEN <<>>
       ELSE LET k == CHOOSE i \in dots : \A j \in dots : j <= i
            IN IF \E j \in 1..(k - 1) : f[j] # "." THEN SubSeq(f, k, Len(f)) ELSE <<>>

\* the dict content_types, as pairs (extension, type)
content_types ==
    { <<<<".", "h", "t", "m", "l">>, "text/html">>,
      <<<<".", "c", "s", "s">>, "text/css">>,
      <<<<".", "j", "s">>, "application/javascript">>,
      <<<<".", "j", "s", "o", "n">>, "application/json">>,
      <<<<".", "p", "n", "g">>, "image/png">>,
      <<<<".", "j", "p", "g">>, "image/jpeg">>,
      <<<<".", "j", "p", "e", "g">>, "image/jpeg">>,
      <<<<".", "g", "i", "f">>, "image/gif">>,
      <<<<".", "s", "v", "g">>, "image/svg+xml">>,
      <<<<".", "i", "c", "o">>, "image/x-icon">>,
      <<<<".", "p", "d", "f">>, "application/pdf">>,
      <<<<".", "t", "x", "t">>, "text/plain">>,
      <<<<".", "x", "m", "l">>, "application/xml">> }

\* Variant: the extension is looked up as it is spelled
get_content_type_CaseSensitive(filename) ==
    LET ext == splitext_ext(filename)
        hit == { p \in content_types : p[1] = ext }
    IN IF hit = {} THEN "binary/octet-stream" ELSE (CHOOSE p \in hit : TRUE)[2]

\* ext = os.path.splitext(filename)[1].lower();
\* return content_types.get(ext, 'binary/octet-stream')
get_content_type(filename) ==
    LET ext == lower(splitext_ext(filename))
        hit == { p \in content_types : p[1] = ext }
    IN IF hit = {} THEN "binary/octet-stream" ELSE (CHOOSE p \in hit : TRUE)[2]

\* Variant: a failed upload is skipped and the loop goes on
UploadStep_Continues(ok) == "next"

\* What the loop of upload_files does after one upload_file call
UploadStep(ok) == IF ok THEN "next" ELSE "abort"

\* self.s3.upload_file(local_path, domain, s3_key, ExtraArgs={'ContentType': content_type})
\* for the next file of the walk; the call records the key and the content type
UploadFile ==
    /\ pc = "upload_file"
    /\ todo # <<>>
    /\ calls' = Append(calls, Call("upload_file", <<Head(todo), get_content_type(Head(todo))>>))
    /\ \E ok \in BOOLEAN :
        /\ uploaded' = (IF ok THEN Append(uploaded, Head(todo)) ELSE uploaded)
        /\ IF UploadStep(ok) = "next"
           THEN /\ todo' = Tail(todo)
                /\ out' = out \o (IF ok THEN <<"Uploaded">> ELSE <<>>)
                /\ UNCHANGED <<pc, uploadRet, exitCode>>
           ELSE /\ UploadReturns("False", <<"ERROR: File upload failed">>)
                /\ UNCHANGED todo
    /\ UNCHANGED <<peer, args, probeAnswer, outputsSeen, remote, deployLocals, emptyLocals, cleanupRet, statusRet>>

\* After the loop: print_status, then outputs = self.get_stack_outputs(domain)
UploadOutputs ==
    /\ pc = "upload_file"
    /\ todo = <<>>
    /\ calls' = Append(calls, Call("describe_stacks", get_stack_name(domain)))
    /\ \E a \in OutputsAnswers :
        /\ outputsSeen' = a
        /\ IF HasDistributionId(a)
              THEN /\ out' = out \o <<"Files uploaded successfully">> \o OutputsMessages(a)
                /\ pc' = "invalidate"
                /\ UNCHANGED <<uploadRet, exitCode>>
           ELSE UploadReturns("True", <<"Files uploaded successfully">> \o OutputsMessages(a))
    /\ UNCHANGED <<peer, args, probeAnswer, remote, deployLocals, todo, uploaded, emptyLocals,
                   cleanupRet, statusRet>>

\* self.cloudfront.create_invalidation(... 'Items': ['/*'] ...)
CreateInvalidation ==
    /\ pc = "invalidate"
    /\ calls' = Append(calls, Call("create_invalidation", <<"/*">>))
    /\ \E ok \in BOOLEAN :
        IF ok
        THEN UploadReturns("True", <<"CloudFront cache invalidated">>)
        ELSE UploadReturns("False", <<"ERROR: File upload failed">>)
    /\ UNCHANGED <<peer, args, probeAnswer, outputsSeen, remote, deployLocals, todo, uploaded, emptyLocals,
                   cleanupRet, statusRet>>

\* The tail of main's deploy branch
DeployComplete ==
    /\ pc = "final"
    /\ out' = Append(out, "Deployment Complete!")
    /\ pc' = "done"
    /\ exitCode' = "0"
    /\ UNCHANGED <<peer, args, probeAnswer, remote, deployLocals, uploadLocals, emptyLocals,
                   calls, cleanupRet, statusRet>>

----------------------------------------------------------------------------
(* main(): the cleanup prompt *)

\* Variant: the answer is compared without regard to case
Confirmed_AnyCase(c) == c \in {"yes", "YES"}

\* if confirmation != 'yes': print_info("Cleanup cancelled"); sys.exit(0)
Confirmed(c) == c = "yes"

Confirm ==
    /\ pc = "confirm"
    /\ IF Confirmed(confirmation)
       THEN /\ out' = out \o <<"Cleaning up AWS resources", "Emptying S3 buckets...">>
            /\ pc' = "head_bucket"
            /\ UNCHANGED exitCode
       ELSE /\ out' = Append(out, "Cleanup cancelled")
            /\ pc' = "done"
            /\ exitCode' = "0"
    /\ UNCHANGED <<peer, args, probeAnswer, remote, deployLocals, uploadLocals, emptyLocals,
                   calls, cleanupRet, statusRet>>

----------------------------------------------------------------------------
(* empty_s3_buckets *)

\* except ClientError as e: 404 is reported as a missing bucket, any other
\* ClientError as a warning; another exception is not caught here, nor in
\* cleanup_stack, nor in main.
EmptyErrorRoute(e) ==
    IF IsClientError(e)
    THEN IF e.code = "404" THEN "missing" ELSE "warned"
    ELSE "raised"

EmptyMessage(result) ==
    CASE result = "missing" -> "Bucket does not exist"
      [] result = "warned" -> "WARNING: Error emptying bucket"
      [] result = "emptied" -> "Bucket emptied"
      [] result = "raised" -> "Traceback (most recent call last)"

\* Variant: the loop stops after the first bucket
NextBucketStep_FirstOnly(idx) == "cleanup_probe"

\* for bucket_name in buckets: what follows bucket idx of [domain, www.domain]
NextBucketStep(idx) == IF idx = 2 THEN "cleanup_probe" ELSE "head_bucket"

\* The loop over [domain, www.domain] is done with bucket bucketIdx, with the
\* given result; cleanup_stack goes on with the stack afterwards.
BucketDone(result) ==
    /\ emptyResult' = [emptyResult EXCEPT ![bucketIdx] = result]
    /\ out' = Append(out, EmptyMessage(result))
    /\ page' = {}
    /\ token' = 0
    /\ IF result = "raised"
       THEN /\ cleanupRet' = "raised"
            /\ pc' = "done"
            /\ exitCode' = "1"
            /\ UNCHANGED bucketIdx
       ELSE /\ UNCHANGED <<cleanupRet, exitCode>>
            /\ pc' = NextBucketStep(bucketIdx)
            /\ bucketIdx' = (IF NextBucketStep(bucketIdx) = "head_bucket"
                             THEN bucketIdx + 1 ELSE bucketIdx)

\* self.s3.head_bucket(Bucket=bucket_name)
HeadBucket ==
    /\ pc = "head_bucket"
    /\ calls' = Append(calls, Call("head_bucket", BucketNames(domain)[bucketIdx]))
    /\ \E r \in HeadAnswers(bucketIdx) :
        IF r = Ok
        THEN /\ out' = Append(out, "Emptying bucket")
             /\ pc' = "list_page"
             /\ UNCHANGED <<emptyLocals, cleanupRet, exitCode>>
        ELSE BucketDone(EmptyErrorRoute(r))
    /\ UNCHANGED <<peer, args, probeAnswer, remote, deployLocals, uploadLocals, statusRet>>

\* The keys of the next page of list_objects_v2: the PageSize smallest keys
\* after the continuation point
NextPage(objs, after) ==
    { k \in objs : k > after /\ Cardinality({ j \in objs : j > after /\ j < k }) < PageSize }

SetMax(S) == CHOOSE m \in S : \A k \in S : k <= m

\* for page in pages: the paginator fetches the next page.  A page without
\* 'Contents' ends the loop of an empty bucket.
ListPage ==
    /\ pc = "list_page"
    /\ calls' = Append(calls, Call("list_objects_v2", BucketNames(domain)[bucketIdx]))
    /\ \E r \in {Ok} \cup (S3Errors \ {BucketMissing}) :
        IF r = Ok
        THEN LET keys == NextPage(buckets[bucketIdx].objs, token)
             IN IF keys = {}
                THEN /\ BucketDone("emptied")
                ELSE /\ page' = keys
                     /\ token' = SetMax(keys)
                     /\ pc' = "delete_objects"
                     /\ UNCHANGED <<bucketIdx, emptyResult, out, cleanupRet, exitCode>>
        ELSE BucketDone(EmptyErrorRoute(r))
    /\ UNCHANGED <<peer, args, probeAnswer, remote, deployLocals, uploadLocals, statusRet>>

\* self.s3.delete_objects(Bucket=bucket_name, Delete={'Objects': objects}).
\* The response is not looked at: the service may answer without exception
\* and still have kept some of the keys (the 'Errors' list of the response).
DeleteObjects ==
    /\ pc = "delete_objects"
    /\ calls' = Append(calls, Call("delete_objects", BucketNames(domain)[bucketIdx]))
    /\ \E r \in {Ok} \cup (S3Errors \ {BucketMissing}) :
        IF r = Ok
        THEN \E kept \in SUBSET page :
                /\ buckets' = [buckets EXCEPT ![bucketIdx].objs = (@ \ page) \cup kept]
                /\ IF \E k \in buckets[bucketIdx].objs : k > token
                   THEN /\ pc' = "list_page"
                        /\ UNCHANGED <<emptyLocals, out, cleanupRet, exitCode>>
                   ELSE BucketDone("emptied")
        ELSE /\ BucketDone(EmptyErrorRoute(r))
             /\ UNCHANGED buckets
    /\ UNCHANGED <<peer, args, probeAnswer, stackExists, remote0, deployLocals, uploadLocals, statusRet>>

----------------------------------------------------------------------------
(* cleanup_stack *)

\* Variant: a missing stack is handled like any other ClientError
CleanupErrorRoute_NoMissingCase(e) ==
    IF IsClientError(e) THEN "False" ELSE "raised"

\* The only handler of cleanup_stack's try: except ClientError as e.
\* 'does not exist' returns True, another ClientError returns False, and an
\* exception of any other class (the waiter's WaiterError among them) leaves
\* cleanup_stack and main uncaught.
CleanupErrorRoute(e) ==
    IF IsClientError(e)
    THEN IF SaysDoesNotExist(e) THEN "True" ELSE "False"
    ELSE "raised"

\* botocore.exceptions.WaiterError: not a ClientError
WaiterError == [cls |-> "WaiterError", dne |-> FALSE, code |-> "n/a"]

\* cleanup_stack ends with v after printing msgs, and main acts on it:
\* sys.exit(1) on False, 'Cleanup completed!' on True, the traceback and
\* exit status 1 of an uncaught exception otherwise.
CleanupReturns(v, msgs) ==
    /\ cleanupRet' = v
    /\ pc' = "done"
    /\ CASE v = "True" ->
              /\ out' = out \o msgs \o <<"Cleanup completed!">>
              /\ exitCode' = "0"
         [] v = "False" ->
              /\ out' = out \o msgs
              /\ exitCode' = "1"
         [] v = "raised" ->
              /\ out' = out \o <<"Traceback (most recent call last)">>
              /\ exitCode' = "1"

CleanupErrorMessages(e) ==
    CASE CleanupErrorRoute(e) = "True" -> <<"CloudFormation stack does not exist">>
      [] CleanupErrorRoute(e) = "False" -> <<"ERROR: Stack deletion failed">>
      [] CleanupErrorRoute(e) = "raised" -> <<>>

CleanupRaises(e) == CleanupReturns(CleanupErrorRoute(e), CleanupErrorMessages(e))

\* self.cloudformation.describe_stacks(StackName=stack_name)
CleanupProbe ==
    /\ pc = "cleanup_probe"
    /\ calls' = Append(calls, Call("describe_stacks", get_stack_name(domain)))
    /\ \E r \in DescribeAnswers :
        /\ probeAnswer' = r
        /\ IF r = Ok
           THEN /\ out' = Append(out, "Deleting CloudFormation stack")
                /\ pc' = "delete_stack"
                /\ UNCHANGED <<cleanupRet, exitCode>>
           ELSE CleanupRaises(r)
    /\ UNCHANGED <<peer, args, remote, deployLocals, uploadLocals, emptyLocals, statusRet>>

\* self.cloudformation.delete_stack(StackName=stack_name)
DeleteStack ==
    /\ pc = "delete_stack"
    /\ calls' = Append(calls, Call("delete_stack", get_stack_name(domain)))
    /\ \E r \in {Ok} \cup CfnErrors :
        IF r = Ok
        THEN /\ waiterName' = "stack_delete_complete"
             /\ pc' = "delete_wait"
             /\ UNCHANGED <<out, cleanupRet, exitCode>>
        ELSE /\ CleanupRaises(r)
             /\ UNCHANGED waiterName
    /\ UNCHANGED <<peer, args, probeAnswer, remote, operation, attempts, lastPoll, deployRet, uploadLocals,
                   emptyLocals, statusRet>>

\* The service deletes the stack's buckets only when they are empty
BucketsDeletable == \A b \in 1..2 : buckets[b].objs = {}

\* waiter.wait(StackName=..., WaiterConfig={'Delay': 30, 'MaxAttempts': 60}):
\* one poll
DeletePoll ==
    /\ pc = "delete_wait"
    /\ attempts' = attempts + 1
    /\ \E status \in (IF BucketsDeletable THEN PollStatuses ELSE PollStatuses \ {"success"}) :
        /\ lastPoll' = status
        /\ CASE WaitOutcome(status, attempts + 1, DeleteMaxAttempts) = "return" ->
                /\ stackExists' = FALSE
                /\ buckets' = <<NoBucket, NoBucket>>
                /\ CleanupReturns("True", <<"Stack deleted successfully">>)
          [] WaitOutcome(status, attempts + 1, DeleteMaxAttempts) = "raise" ->
                /\ CleanupRaises(WaiterError)
                /\ UNCHANGED <<stackExists, buckets>>
          [] WaitOutcome(status, attempts + 1, DeleteMaxAttempts) = "sleep" ->
                UNCHANGED <<stackExists, buckets, out, cleanupRet, pc, exitCode>>
    /\ UNCHANGED <<peer, args, probeAnswer, remote0, operation, waiterName, deployRet, uploadLocals,
                   emptyLocals, calls, statusRet>>

----------------------------------------------------------------------------
(* get_stack_status *)

\* except ClientError as e: both branches return False; another exception
\* is not caught
StatusErrorRoute(e) ==
    IF IsClientError(e) THEN "False" ELSE "raised"

StatusErrorMessage(e) ==
    IF IsClientError(e)
    THEN IF SaysDoesNotExist(e) THEN "No stack found for domain" ELSE "ERROR: Error getting stack status"
    ELSE "Traceback (most recent call last)"

\* response = self.cloudformation.describe_stacks(StackName=stack_name);
\* main: if not deployer.get_stack_status(args.domain): sys.exit(1)
StatusProbe ==
    /\ pc = "status_probe"
    /\ calls' = Append(calls, Call("describe_stacks", get_stack_name(domain)))
    /\ \E r \in DescribeAnswers :
        /\ probeAnswer' = r
        /\ IF r = Ok
           THEN /\ out' = Append(out, "Status for domain")
                /\ pc' = "status_outputs"
                /\ UNCHANGED <<statusRet, exitCode>>
           ELSE /\ statusRet' = StatusErrorRoute(r)
                /\ out' = Append(out, StatusErrorMessage(r))
                /\ pc' = "done"
                /\ exitCode' = "1"
    /\ UNCHANGED <<peer, args, remote, deployLocals, uploadLocals, emptyLocals, cleanupRet>>

\* outputs = self.get_stack_outputs(domain); ...; return True
StatusOutputs ==
    /\ pc = "status_outputs"
    /\ calls' = Append(calls, Call("describe_stacks", get_stack_name(domain)))
    /\ \E a \in OutputsAnswers :
        out' = out \o OutputsMessages(a)
                   \o (IF HasOutputs(a) THEN <<"Stack Outputs:">> ELSE <<>>)
    /\ statusRet' = "True"
    /\ pc' = "done"
    /\ exitCode' = "0"
    /\ UNCHANGED <<peer, args, probeAnswer, remote, deployLocals, uploadLocals, emptyLocals, cleanupRet>>

----------------------------------------------------------------------------
Next ==
    \/ ValidateDomain
    \/ CheckCredentials
    \/ DeployProbe
    \/ UpdateStack
    \/ CreateStack
    \/ DeployPoll
    \/ DisplayStackInfo
    \/ UploadStart
    \/ UploadFile
    \/ UploadOutputs
    \/ CreateInvalidation
    \/ DeployComplete
    \/ Confirm
    \/ HeadBucket
    \/ ListPage
    \/ DeleteObjects
    \/ CleanupProbe
    \/ DeleteStack
    \/ DeletePoll
    \/ StatusProbe
    \/ StatusOutputs

Spec == Init /\ [][Next]_vars

TypeOK ==
    /\ pc \in {"validate", "creds", "deploy_probe", "deploy_update", "deploy_create",
               "deploy_wait", "display", "upload_start", "upload_file", "invalidate",
               "final", "confirm", "head_bucket", "list_page", "delete_objects",
               "cleanup_probe", "delete_stack", "delete_wait", "status_probe",
               "status_outputs", "done"}
    /\ exitCode \in {"running", "0", "1"}
    /\ (pc = "done") = (exitCode # "running")
    /\ attempts \in 0..DeployMaxAttempts

----------------------------------------------------------------------------
(* Vocabulary of the properties *)

CallsOf(apis) == SelectSeq(calls, LAMBDA c : c.api \in apis)

IndexesOf(api) == { i \in 1..Len(calls) : calls[i].api = api }

Printed(m) == m \in Range(out)

Submissions == CallsOf({"create_stack", "update_stack"})

DestructiveCalls == CallsOf({"delete_objects", "delete_stack"})

TransferCalls == CallsOf({"upload_file", "create_invalidation"})

\* an upload_file call of this run raised
UploadFailed == Cardinality(IndexesOf("upload_file")) > Len(uploaded)

\* the files upload_files was to walk
FilesToUpload == IF website_folder.given THEN website_folder.files ELSE SampleFiles

RemoteUnchanged == stackExists = remote0.stack /\ buckets = remote0.buckets

----------------------------------------------------------------------------
(* C1: in deploy_stack the answer of the existence probe decides the
   submission: 'stack does not exist' (a ClientError saying so) submits
   create_stack; a successful answer submits update_stack; any other error
   submits nothing and deploy_stack returns False. *)
C1_ProbeDecidesSubmission ==
    (command = "deploy" /\ probeAnswer # NotAsked) =>
        /\ (probeAnswer = StackMissing /\ pc # "deploy_create") =>
                /\ Len(Submissions) = 1
                /\ Submissions[1].api = "create_stack"
                /\ Submissions[1].target = get_stack_name(domain)
        /\ (probeAnswer = Ok /\ pc # "deploy_update") =>
                /\ Len(Submissions) >= 1
                /\ Submissions[1].api = "update_stack"
                /\ Submissions[1].target = get_stack_name(domain)
        /\ probeAnswer \notin {StackMissing, Ok} =>
                /\ Submissions = <<>>
                /\ deployRet = "False"
                /\ pc = "done"

C1_Witness ==
    /\ command = "deploy"
    /\ probeAnswer = StackMissing
    /\ pc = "deploy_wait"
    /\ Len(Submissions) = 1
    /\ Submissions[1].api = "create_stack"

----------------------------------------------------------------------------
(* C2: in a deploy run whose waiter never sees a terminal status, the wait
   ends with the 120th poll: deploy_stack returns False, the process exits
   with status 1, and no file upload or cache invalidation is performed; the
   waiter never polls more than 120 times. *)
C2_DeployWaitBounded ==
    command = "deploy" =>
        /\ attempts <= DeployMaxAttempts
        /\ pc = "deploy_wait" => attempts < DeployMaxAttempts
        /\ (attempts = DeployMaxAttempts /\ lastPoll = "pending") =>
                /\ pc = "done"
                /\ deployRet = "False"
                /\ exitCode = "1"
                /\ TransferCalls = <<>>
                /\ uploaded = <<>>

C2_Witness ==
    /\ command = "deploy"
    /\ attempts = DeployMaxAttempts
    /\ lastPoll = "pending"
    /\ exitCode = "1"

----------------------------------------------------------------------------
(* C3: in a cleanup run, when the wait for the deletion ends without success
   (60 polls without a terminal status, or a terminal failure status),
   cleanup_stack prints an error message and returns False, main exits with
   status 1, and 'Cleanup completed!' is never printed. *)
C3_DeleteWaitFailureHandled ==
    (command = "cleanup" /\ waiterName = "stack_delete_complete"
        /\ pc = "done" /\ lastPoll \in {"failure", "pending"}) =>
        /\ cleanupRet = "False"
        /\ Printed("ERROR: Stack deletion failed")
        /\ exitCode = "1"
        /\ ~Printed("Cleanup completed!")

----------------------------------------------------------------------------
(* C4: a status run with a valid domain and valid credentials whose stack
   does not exist reports the absence and does not exit with a non-zero
   status. *)
C4_StatusAbsenceNotFatal ==
    (command = "status" /\ probeAnswer = StackMissing /\ pc = "done") =>
        /\ Printed("No stack found for domain")
        /\ exitCode # "1"

----------------------------------------------------------------------------
(* C5: in a deploy run whose stack deployment succeeded, a failed file
   upload is fatal: the run exits with status 1 and the final 'Deployment
   Complete!' is not printed, with --website-folder and with the sample
   website alike. *)
C5_UploadErrorFatal ==
    (command = "deploy" /\ deployRet = "True" /\ UploadFailed /\ pc = "done") =>
        /\ exitCode = "1"
        /\ ~Printed("Deployment Complete!")

----------------------------------------------------------------------------
(* C6: once an upload_file call of upload_files has failed, that call is the
   last remote call of upload_files: no further file is uploaded, no
   invalidation is requested, no delete is issued (the files uploaded before
   stay in the bucket), and upload_files returns False. *)
C6_FirstUploadErrorAborts ==
    UploadFailed =>
        /\ calls[Len(calls)].api = "upload_file"
        /\ Cardinality(IndexesOf("upload_file")) = Len(uploaded) + 1
        /\ IndexesOf("create_invalidation") = {}
        /\ DestructiveCalls = <<>>
        /\ uploadRet = "False"
        /\ uploaded \o todo = FilesToUpload

C6_Witness ==
    /\ UploadFailed
    /\ Len(uploaded) = 1
    /\ Len(todo) = 2
    /\ pc = "done"

----------------------------------------------------------------------------
(* C7 as stated: whenever upload_files finishes with every file of the folder
   uploaded, exactly one cache invalidation has been issued, after the last
   upload; upload_files never returns True without it. *)
C7_SuccessImpliesInvalidation ==
    (uploadRet # "none" /\ uploaded = FilesToUpload /\ (website_folder.given => website_folder.exists)) =>
        /\ Cardinality(IndexesOf("create_invalidation")) = 1
        /\ \A i \in IndexesOf("create_invalidation"), j \in IndexesOf("upload_file") : j < i

(* C7 amended: upload_files requests an invalidation only after the last file
   of the folder has been uploaded, and at most once; when it returns True
   every file has been uploaded, and exactly one invalidation of '/*' has
   been issued if get_stack_outputs returned a CloudFrontDistributionId,
   none if it returned no such key (also when reading the outputs failed). *)
C7_InvalidationIffDistributionId ==
    /\ \A i \in IndexesOf("create_invalidation") :
            /\ calls[i].target = <<"/*">>
            /\ uploaded = FilesToUpload
            /\ \A j \in IndexesOf("upload_file") : j < i
    /\ Cardinality(IndexesOf("create_invalidation")) <= 1
    /\ uploadRet = "True" =>
            /\ uploaded = FilesToUpload
            /\ outputsSeen # "none"
            /\ Cardinality(IndexesOf("create_invalidation"))
                    = (IF outputsSeen = "with_id" THEN 1 ELSE 0)

C7_Witness ==
    /\ uploadRet = "True"
    /\ Len(uploaded) = 2
    /\ outputsSeen = "without_id"
    /\ IndexesOf("create_invalidation") = {}

----------------------------------------------------------------------------
(* C8: in a cleanup run no delete_objects and no delete_stack is issued unless
   the operator typed exactly 'yes'; with any other input the run that
   reaches the prompt ends with exit status 0 and the remote state as it
   was. *)
C8_OnlyYesDestroys ==
    (command = "cleanup" /\ confirmation # "yes") =>
        /\ DestructiveCalls = <<>>
        /\ RemoteUnchanged
        /\ pc \notin {"head_bucket", "list_page", "delete_objects", "cleanup_probe",
                      "delete_stack", "delete_wait"}
        /\ (pc = "done" /\ Printed("AWS credentials validated")) =>
                /\ exitCode = "0"
                /\ Printed("Cleanup cancelled")

C8_Witness ==
    /\ command = "cleanup"
    /\ confirmation = "YES"
    /\ remote0.stack
    /\ remote0.buckets[1].objs # {}
    /\ exitCode = "0"

----------------------------------------------------------------------------
(* C9 as stated: when delete_stack is issued, each of the two buckets has been
   emptied or found not to exist; it is never issued after an emptying
   attempt that failed or left objects behind. *)
C9_DeleteStackOnlyAfterEmptied ==
    IndexesOf("delete_stack") # {} =>
        \A b \in 1..2 :
            /\ emptyResult[b] \in {"emptied", "missing"}
            /\ buckets[b].objs = {}

\* delete_objects calls issued for bucket b
DeleteBatches(b) ==
    Cardinality({ i \in IndexesOf("delete_objects") : calls[i].target = BucketNames(domain)[b] })

\* pages of n keys
Pages(n) == (n + PageSize - 1) \div PageSize

(* C9 amended: when delete_stack is issued, the emptying attempt on the domain
   bucket and then on the www bucket is over, and every S3 call precedes it.
   Each attempt ended in one of three ways: the bucket was reported missing
   (404) and no delete_objects was issued for it; a ClientError ended the
   attempt with a warning; or every page of the listing was passed to one
   delete_objects call.  delete_stack is issued in all three cases, also
   when objects are left in a bucket. *)
C9_DeleteStackAfterEmptyingAttempts ==
    \A d \in IndexesOf("delete_stack") :
        /\ \A b \in 1..2 :
            /\ emptyResult[b] \in {"emptied", "missing", "warned"}
            /\ emptyResult[b] = "missing" => DeleteBatches(b) = 0 /\ ~remote0.buckets[b].exists
            /\ emptyResult[b] = "emptied" =>
                    DeleteBatches(b) = Pages(Cardinality(remote0.buckets[b].objs))
        /\ \A i \in IndexesOf("head_bucket") \cup IndexesOf("list_objects_v2")
                    \cup IndexesOf("delete_objects") : i < d
        /\ Cardinality(IndexesOf("head_bucket")) = 2
        /\ calls[d - 1].api = "describe_stacks"

C9_Witness ==
    /\ IndexesOf("delete_stack") # {}
    /\ emptyResult = <<"emptied", "warned">>
    /\ DeleteBatches(1) = 2
    /\ buckets[1].objs = {}
    /\ buckets[2].objs # {}

----------------------------------------------------------------------------
(* C10: a confirmed cleanup of a domain with no stack and neither bucket, all
   three reported missing by the services, issues no delete_objects and no
   delete_stack, cleanup_stack returns True and the run exits with status 0
   after 'Cleanup completed!'. *)
C10_CleanupOfNothingSucceeds ==
    (command = "cleanup" /\ confirmation = "yes" /\ pc = "done"
        /\ ~remote0.stack /\ \A b \in 1..2 : ~remote0.buckets[b].exists
        /\ emptyResult = <<"missing", "missing">> /\ probeAnswer = StackMissing) =>
        /\ DestructiveCalls = <<>>
        /\ cleanupRet = "True"
        /\ exitCode = "0"
        /\ Printed("Cleanup completed!")
        /\ RemoteUnchanged

C10_Witness ==
    /\ command = "cleanup"
    /\ confirmation = "yes"
    /\ pc = "done"
    /\ emptyResult = <<"missing", "missing">>
    /\ probeAnswer = StackMissing
    /\ cleanupRet = "True"

----------------------------------------------------------------------------
(* Inputs of the pure functions: domains and file names as the command line
   and the folder walk may deliver them *)

MaxDomainLen == 6   \* length of the enumerated domains

DomainChars == {"a", "-", ".", "\n"}

ExampleCom == <<"e", "x", "a", "m", "p", "l", "e", ".", "c", "o", "m">>
MySiteCo == <<"m", "y", "-", "s", "i", "t", "e", ".", "c", "o">>
HyphenFirst == <<"-", "b", "a", "d", ".", "c", "o", "m">>
HyphenLast == <<"b", "a", "d", "-", ".", "c", "o", "m">>
NoDot == <<"n", "o", "d", "o", "t">>
ShortTld == <<"a", ".", "c">>
TwoCharLabel == <<"a", "b", ".", "c", "o", "m">>
DigitLabel == <<"a", "1", "a", ".", "c", "o">>
DigitTld == <<"a", "a", "a", ".", "c", "1">>
MixedCase == <<"A", "b", "C", ".", "C", "o", "m">>
SubDomain == <<"w", "w", "w", ".", "e", "x", "a", "m", "p", "l", "e", ".", "c", "o", "m">>
TrailingNewline == <<"e", "x", "a", "m", "p", "l", "e", ".", "c", "o", "m", "\n">>

\* labels of 63 and of 64 characters
LongLabel(n) == [i \in 1..n |-> "a"] \o <<".", "c", "o">>

NamedDomains == { ExampleCom, MySiteCo, HyphenFirst, HyphenLast, NoDot, ShortTld,
                  TwoCharLabel, DigitLabel, DigitTld, MixedCase, SubDomain,
                  TrailingNewline, LongLabel(63), LongLabel(64) }

InputDomains == SeqsUpTo(DomainChars, MaxDomainLen) \cup NamedDomains

\* file names for the content-type lookup
PhotoUnknown == <<"p", "h", "o", "t", "o", ".", "u", "n", "k", "n", "o", "w", "n", "e", "x", "t">>
UpperHtml == <<"I", "N", "D", "E", "X", ".", "H", "T", "M", "L">>
LogoPng == <<"L", "o", "g", "o", ".", "P", "n", "g">>
DotHtml == <<".", "h", "t", "m", "l">>
TarGz == <<"a", ".", "t", "a", "r", ".", "g", "z">>
TrailingDot == <<"n", "o", "t", "e", "s", ".">>
AppJs == <<"a", "p", "p", ".", "j", "s">>
DataJson == <<"d", "a", "t", "a", ".", "j", "s", "o", "n">>
HtmlNoDot == <<"h", "t", "m", "l">>

TypeNames == FileNames \cup { PhotoUnknown, UpperHtml, LogoPng, DotHtml, TarGz,
                              TrailingDot, AppJs, DataJson, HtmlNoDot }

\* The state of a run before its first step, the inputs and the remote state
\* aside
Fresh ==
    /\ pc = "validate"
    /\ exitCode = "running"
    /\ out = <<>>
    /\ calls = <<>>
    /\ operation = "unset"
    /\ waiterName = "none"
    /\ attempts = 0
    /\ deployRet = "none"
    /\ uploadRet = "none"
    /\ cleanupRet = "none"
    /\ statusRet = "none"
    /\ todo = <<>>
    /\ uploaded = <<>>
    /\ bucketIdx = 1
    /\ page = {}
    /\ token = 0
    /\ emptyResult = <<"none", "none">>
    /\ probeAnswer = NotAsked
    /\ lastPoll = "none"
    /\ outputsSeen = "none"

\* Runs over many domains with the sample website, and deploy runs of one
\* domain over folders of one file each
InitInputs ==
    /\ command \in {"deploy", "cleanup", "status"}
    /\ \/ /\ domain \in InputDomains
          /\ website_folder = NoFolder
       \/ /\ command = "deploy"
          /\ domain = ExampleCom
          /\ website_folder \in { [given |-> TRUE, exists |-> TRUE, files |-> <<f>>] : f \in TypeNames }
    /\ confirmation = (IF command = "cleanup" THEN "yes" ELSE "")
    /\ stackExists \in BOOLEAN
    /\ buckets \in (IF command = "cleanup"
                    THEN { <<NoBucket, NoBucket>>, <<[exists |-> TRUE, objs |-> {1}], NoBucket>> }
                    ELSE { <<NoBucket, NoBucket>> })
    /\ remote0 = [stack |-> stackExists, buckets |-> buckets]
    /\ Fresh
    /\ peer = PeerOff

SpecInputs == InitInputs /\ [][Next]_vars

----------------------------------------------------------------------------
\* validate_domain let the run go on
Accepted == pc # "validate" /\ ~Printed("ERROR: Invalid domain name format")

\* d is <label>.<tld>: one dot, a label of minLabel to 63 letters, digits and
\* hyphens that neither starts nor ends with a hyphen, a TLD of two or more
\* letters
LabelDotTld(d, minLabel) ==
    LET dots == { i \in 1..Len(d) : d[i] = "." }
    IN /\ Cardinality(dots) = 1
       /\ LET k == CHOOSE i \in dots : TRUE
              label == SubSeq(d, 1, k - 1)
              tld == SubSeq(d, k + 1, Len(d))
          IN /\ Len(label) >= minLabel
             /\ Len(label) <= 63
             /\ Range(label) \subseteq AlnumHyphen
             /\ label[1] # "-"
             /\ label[Len(label)] # "-"
             /\ Len(tld) >= 2
             /\ Range(tld) \subseteq Letters

WithoutFinalNewline(d) ==
    IF Len(d) > 0 /\ d[Len(d)] = "\n" THEN SubSeq(d, 1, Len(d) - 1) ELSE d

DomainExamples ==
    /\ domain \in {ExampleCom, MySiteCo} => Accepted
    /\ domain \in {HyphenFirst, HyphenLast, NoDot, ShortTld} => ~Accepted

Rejected ==
    /\ pc = "done"
    /\ exitCode = "1"
    /\ calls = <<>>

(* C11 as stated: validate_domain accepts exactly the strings <label>.<tld>
   with a label of 2 to 63 characters, and ends the run with status 1 for
   every other string; it accepts 'example.com' and 'my-site.co' and rejects
   '-bad.com', 'bad-.com', 'nodot' and 'a.c'. *)
C11_AcceptsLabels2To63 ==
    pc # "validate" =>
        /\ Accepted <=> LabelDotTld(domain, 2)
        /\ ~Accepted => Rejected
        /\ DomainExamples

(* C11 amended: validate_domain accepts exactly the strings <label>.<tld>,
   optionally followed by one final newline, with a label of 3 to 63
   characters, and ends the run with status 1 before any remote call for
   every other string; the six examples are accepted and rejected as
   stated. *)
C11_AcceptsLabels3To63 ==
    pc # "validate" =>
        /\ Accepted <=> LabelDotTld(WithoutFinalNewline(domain), 3)
        /\ ~Accepted => Rejected
        /\ DomainExamples

C11_Witness ==
    /\ domain = TwoCharLabel
    /\ Rejected
    /\ Printed("ERROR: Invalid domain name format")

----------------------------------------------------------------------------
OrchestrationCalls == CallsOf({"describe_stacks", "create_stack", "update_stack"})

\* the gates of a deploy run: validation, then credentials, before any
\* orchestration call; terminal success of the wait before any transfer
DeployGates ==
    /\ calls # <<>> => validate_domain(domain) /\ calls[1].api = "get_caller_identity"
    /\ OrchestrationCalls # <<>> => Printed("AWS credentials validated")
    /\ Printed("ERROR: AWS credentials invalid") => Len(calls) = 1
    /\ TransferCalls # <<>> => lastPoll = "success" /\ deployRet = "True"

\* some step of the run has failed
StepFailed ==
    \/ Printed("ERROR: Invalid domain name format")
    \/ Printed("ERROR: AWS credentials invalid")
    \/ deployRet = "False"
    \/ Printed("ERROR: Failed to get stack outputs")
    \/ uploadRet = "False"

(* C12 as stated: in a deploy run no orchestration call is made unless domain
   validation and then the credential check succeeded, no upload or
   invalidation is made unless the wait ended in terminal success, and a
   failure at any step ends the run with a non-zero exit status. *)
C12_AnyFailureEndsRun ==
    command = "deploy" =>
        /\ DeployGates
        /\ (pc = "done" /\ StepFailed) => exitCode = "1"

(* C12 amended: the gates hold as stated; a failure of domain validation, of
   the credential check, of the submission or of the wait ends the run with
   exit status 1, without any upload or invalidation and without the final
   message; so does a failure of upload_files when --website-folder is
   given.  (A failure to read the stack outputs does not end the run, and a
   failure of upload_files for the sample website does not change the exit
   status.) *)
C12_GatedDeploy ==
    command = "deploy" =>
        /\ DeployGates
        /\ (pc = "done" /\ deployRet # "True") =>
                /\ exitCode = "1"
                /\ TransferCalls = <<>>
                /\ ~Printed("Deployment Complete!")
        /\ (pc = "done" /\ uploadRet = "False" /\ website_folder.given) =>
                /\ exitCode = "1"
                /\ ~Printed("Deployment Complete!")

C12_Witness ==
    /\ command = "deploy"
    /\ lastPoll = "failure"
    /\ pc = "done"
    /\ exitCode = "1"
    /\ website_folder.given
    /\ TransferCalls = <<>>

----------------------------------------------------------------------------
StackApis == {"describe_stacks", "create_stack", "update_stack", "delete_stack"}

\* t is 'website-' followed by d with '-' in the place of every '.'
IsStackNameOf(t, d) ==
    /\ Len(t) = Len(d) + 8
    /\ SubSeq(t, 1, 8) = <<"w", "e", "b", "s", "i", "t", "e", "-">>
    /\ \A i \in 1..Len(d) : t[8 + i] = (IF d[i] = "." THEN "-" ELSE d[i])
    /\ \A i \in 9..Len(t) : t[i] # "."

WebsiteExampleCom ==
    <<"w", "e", "b", "s", "i", "t", "e", "-", "e", "x", "a", "m", "p", "l", "e", "-", "c", "o", "m">>

(* C13: every stack call of a run, whatever the command (deploy, cleanup,
   status), addresses the name 'website-' followed by the domain with every
   '.' replaced by '-'; for 'example.com' that is 'website-example-com'. *)
C13_StackNameDerivation ==
    \A i \in 1..Len(calls) :
        calls[i].api \in StackApis =>
            /\ IsStackNameOf(calls[i].target, domain)
            /\ domain = ExampleCom => calls[i].target = WebsiteExampleCom

C13_Witness ==
    /\ command = "cleanup"
    /\ domain = ExampleCom
    /\ \E i \in IndexesOf("delete_stack") : calls[i].target = WebsiteExampleCom

----------------------------------------------------------------------------
\* f ends with the extension e (compared in lower case if ci), after a name
\* that is more than dots
HasExtension(f, e, ci) ==
    /\ Len(f) > Len(e)
    /\ f[Len(f) - Len(e) + 1] = "."
    /\ LET tail == SubSeq(f, Len(f) - Len(e) + 1, Len(f))
       IN (IF ci THEN lower(tail) ELSE tail) = e
    /\ \E j \in 1..(Len(f) - Len(e)) : f[j] # "."

\* the type the table gives for f's extension, the generic binary type if
\* it gives none
TypeByExtension(f, ci) ==
    LET hit == { p \in content_types : HasExtension(f, p[1], ci) }
    IN IF hit = {} THEN "binary/octet-stream" ELSE (CHOOSE p \in hit : TRUE)[2]

TypeExamples(name, type) ==
    /\ name = IndexHtml => type = "text/html"
    /\ name = StyleCss => type = "text/css"
    /\ name \in {PhotoUnknown, License} => type = "binary/octet-stream"

(* C14 as stated: every file is uploaded with the content type the table
   gives for its extension, and with 'binary/octet-stream' when the
   extension is not in the table or the name has none. *)
C14_TypeByExactExtension ==
    \A i \in IndexesOf("upload_file") :
        /\ calls[i].target[2] = TypeByExtension(calls[i].target[1], FALSE)
        /\ TypeExamples(calls[i].target[1], calls[i].target[2])

(* C14 amended: every file is uploaded with the content type the table gives
   for its extension in lower case ('INDEX.HTML' gives 'text/html'), and with
   'binary/octet-stream' when the lower-cased extension is not in the table
   or the name has no extension. *)
C14_TypeByLowerCasedExtension ==
    \A i \in IndexesOf("upload_file") :
        /\ calls[i].target[1] \in Range(FilesToUpload)
        /\ calls[i].target[2] = TypeByExtension(calls[i].target[1], TRUE)
        /\ TypeExamples(calls[i].target[1], calls[i].target[2])

C14_Witness ==
    \E i \in IndexesOf("upload_file") : calls[i].target = <<UpperHtml, "text/html">>

----------------------------------------------------------------------------
(* C15: one call of deploy_stack makes at most one submission: it never calls
   both update_stack and create_stack, create_stack is called only if the
   describe_stacks probe itself reported that the stack does not exist, and
   the waiter matches the submission made. *)
C15_AtMostOneSubmission ==
    command = "deploy" =>
        /\ Len(Submissions) <= 1
        /\ IndexesOf("create_stack") # {} => probeAnswer = StackMissing
        /\ waiterName # "none" =>
                /\ Submissions # <<>>
                /\ waiterName = (IF Submissions[Len(Submissions)].api = "create_stack"
                                 THEN "stack_create_complete"
                                 ELSE "stack_update_complete")

----------------------------------------------------------------------------
(* Two deploy processes for the same domain.  The first is the run modelled
   above; the second runs the same code on its own locals, kept in the record
   peer.  They share nothing but the remote state. *)

firstProcess == <<args, pc, exitCode, out, calls, deployLocals, uploadLocals,
                  emptyLocals, cleanupRet, statusRet, probeAnswer, buckets, remote0>>

PeerCalls(p, api, target) == [p EXCEPT !.calls = Append(@, Call(api, target))]

\* deploy_stack returns False and main exits 1
PeerFailed(p) == [p EXCEPT !.deployRet = "False", !.pc = "done", !.exitCode = "1"]

\* upload_files returns v to main or to create_sample_website
PeerUploadReturns(p, v) ==
    IF website_folder.given /\ v = "False"
    THEN [p EXCEPT !.uploadRet = v, !.pc = "done", !.exitCode = "1"]
    ELSE [p EXCEPT !.uploadRet = v, !.pc = "final"]

\* deployer.validate_domain(args.domain)
PeerValidate ==
    /\ peer.pc = "validate"
    /\ peer' = (IF validate_domain(domain)
                THEN [peer EXCEPT !.pc = "creds"]
                ELSE [peer EXCEPT !.pc = "done", !.exitCode = "1"])
    /\ UNCHANGED <<firstProcess, stackExists>>

\* if not deployer.check_credentials(): sys.exit(1)
PeerCredentials ==
    /\ peer.pc = "creds"
    /\ \E ok \in BOOLEAN :
        peer' = (IF ok
                 THEN [PeerCalls(peer, "get_caller_identity", <<"sts">>) EXCEPT
                            !.pc = CommandEntry("deploy")]
                 ELSE [PeerCalls(peer, "get_caller_identity", <<"sts">>) EXCEPT
                            !.pc = "done", !.exitCode = "1"])
    /\ UNCHANGED <<firstProcess, stackExists>>

\* self.cloudformation.describe_stacks(StackName=stack_name)
PeerProbe ==
    /\ peer.pc = "deploy_probe"
    /\ \E r \in DescribeAnswers :
        LET p == [PeerCalls(peer, "describe_stacks", get_stack_name(domain)) EXCEPT
                        !.probeAnswer = r]
        IN peer' = CASE ProbeRoute(r) = "update" ->
                            [p EXCEPT !.operation = "UPDATE", !.pc = "deploy_update"]
                     [] ProbeRoute(r) = "create" ->
                            [p EXCEPT !.operation = "CREATE", !.pc = "deploy_create"]
                     [] ProbeRoute(r) = "fail" -> PeerFailed(p)
    /\ UNCHANGED <<firstProcess, stackExists>>

\* self.cloudformation.update_stack(...)
PeerUpdate ==
    /\ peer.pc = "deploy_update"
    /\ \E r \in (IF stackExists THEN {Ok} ELSE {}) \cup CfnErrors :
        /\ stackExists' = (IF r = StackMissing THEN FALSE ELSE stackExists)
        /\ LET p == PeerCalls(peer, "update_stack", get_stack_name(domain))
           IN peer' = CASE ProbeRoute(r) = "update" ->
                            [p EXCEPT !.waiterName = WaiterFor(p.operation), !.pc = "deploy_wait"]
                        [] ProbeRoute(r) = "create" ->
                            [p EXCEPT !.operation = "CREATE", !.pc = "deploy_create"]
                        [] ProbeRoute(r) = "fail" -> PeerFailed(p)
    /\ UNCHANGED firstProcess

\* self.cloudformation.create_stack(...)
PeerCreate ==
    /\ peer.pc = "deploy_create"
    /\ \E r \in (IF stackExists THEN {} ELSE {Ok}) \cup CfnErrors :
        /\ stackExists' = (IF r = Ok THEN TRUE ELSE stackExists)
        /\ LET p == [PeerCalls(peer, "create_stack", get_stack_name(domain)) EXCEPT
                        !.createAnswer = r]
           IN peer' = IF r = Ok
                      THEN [p EXCEPT !.waiterName = WaiterFor(p.operation), !.pc = "deploy_wait"]
                      ELSE PeerFailed(p)
    /\ UNCHANGED firstProcess

\* waiter.wait(...) from its first poll to its return or its WaiterError: the
\* polls only read the remote state, so the whole wait is one step here; n is
\* the number of the poll that ends it
PeerWait ==
    /\ peer.pc = "deploy_wait"
    /\ \E outcome \in {WaitOutcome(status, n, DeployMaxAttempts) :
                            status \in PollStatuses, n \in 1..DeployMaxAttempts} \ {"sleep"} :
        peer' = IF outcome = "return"
                THEN [peer EXCEPT !.deployRet = "True", !.pc = "display"]
                ELSE PeerFailed(peer)
    /\ UNCHANGED <<firstProcess, stackExists>>

\* deployer.display_stack_info(args.domain)
PeerDisplay ==
    /\ peer.pc = "display"
    /\ peer' = [PeerCalls(peer, "describe_stacks", get_stack_name(domain)) EXCEPT
                    !.pc = "upload_start"]
    /\ UNCHANGED <<firstProcess, stackExists>>

\* upload_files(folder) or create_sample_website
PeerUploadStart ==
    /\ peer.pc = "upload_start"
    /\ peer' = (IF website_folder.given
                THEN IF website_folder.exists
                     THEN [peer EXCEPT !.todo = website_folder.files, !.pc = "upload_file"]
                     ELSE PeerUploadReturns(peer, "False")
                ELSE [peer EXCEPT !.todo = SampleFiles, !.pc = "upload_file"])
    /\ UNCHANGED <<firstProcess, stackExists>>

\* self.s3.upload_file(...)
PeerUploadFile ==
    /\ peer.pc = "upload_file"
    /\ peer.todo # <<>>
    /\ \E ok \in BOOLEAN :
        LET f == Head(peer.todo)
            p == PeerCalls(peer, "upload_file", <<f, get_content_type(f)>>)
        IN peer' = IF UploadStep(ok) = "next"
                   THEN [p EXCEPT !.todo = Tail(@),
                                  !.uploaded = (IF ok THEN Append(@, f) ELSE @)]
                   ELSE PeerUploadReturns(p, "False")
    /\ UNCHANGED <<firstProcess, stackExists>>

\* outputs = self.get_stack_outputs(domain)
PeerOutputs ==
    /\ peer.pc = "upload_file"
    /\ peer.todo = <<>>
    /\ \E a \in OutputsAnswers :
        LET p == PeerCalls(peer, "describe_stacks", get_stack_name(domain))
        IN peer' = IF HasDistributionId(a)
                   THEN [p EXCEPT !.pc = "invalidate"]
                   ELSE PeerUploadReturns(p, "True")
    /\ UNCHANGED <<firstProcess, stackExists>>

\* self.cloudfront.create_invalidation(...)
PeerInvalidate ==
    /\ peer.pc = "invalidate"
    /\ \E ok \in BOOLEAN :
        peer' = PeerUploadReturns(PeerCalls(peer, "create_invalidation", <<"/*">>),
                                  IF ok THEN "True" ELSE "False")
    /\ UNCHANGED <<firstProcess, stackExists>>

\* the tail of main's deploy branch
PeerComplete ==
    /\ peer.pc = "final"
    /\ peer' = [peer EXCEPT !.complete = TRUE, !.pc = "done", !.exitCode = "0"]
    /\ UNCHANGED <<firstProcess, stackExists>>

\* Both processes are started for a valid domain whose stack is absent
InitRace ==
    /\ command = "deploy"
    /\ domain = ExampleCom
    /\ website_folder = NoFolder
    /\ confirmation = ""
    /\ stackExists = FALSE
    /\ buckets = <<NoBucket, NoBucket>>
    /\ remote0 = [stack |-> stackExists, buckets |-> buckets]
    /\ Fresh
    /\ peer = PeerStart

NextRace ==
    \/ ValidateDomain
    \/ CheckCredentials
    \/ DeployProbe
    \/ UpdateStack
    \/ CreateStack
    \/ DeployPoll
    \/ DisplayStackInfo
    \/ UploadStart
    \/ UploadFile
    \/ UploadOutputs
    \/ CreateInvalidation
    \/ DeployComplete
    \/ PeerValidate
    \/ PeerCredentials
    \/ PeerProbe
    \/ PeerUpdate
    \/ PeerCreate
    \/ PeerWait
    \/ PeerDisplay
    \/ PeerUploadStart
    \/ PeerUploadFile
    \/ PeerOutputs
    \/ PeerInvalidate
    \/ PeerComplete

SpecRace == InitRace /\ [][NextRace]_vars

----------------------------------------------------------------------------
(* C16 *)

PeerCallsOf(apis) == SelectSeq(peer.calls, LAMBDA c : c.api \in apis)

\* create_stack of the first process raised: it was called and no waiter was chosen
FirstCreateRejected ==
    /\ CallsOf({"create_stack"}) # <<>>
    /\ waiterName = "none"

\* create_stack of the second process raised
PeerCreateRejected ==
    /\ PeerCallsOf({"create_stack"}) # <<>>
    /\ peer.createAnswer # Ok

(* C16: two deploy processes run concurrently for the same domain whose stack
   is absent and take no lock.  A process whose create_stack the service
   rejects ends with a fatal error (deploy_stack returned False, exit status
   1) and performs no upload and no invalidation. *)
C16_RejectedCreateIsFatal ==
    /\ FirstCreateRejected =>
            /\ pc = "done"
            /\ exitCode = "1"
            /\ deployRet = "False"
            /\ TransferCalls = <<>>
            /\ uploaded = <<>>
    /\ PeerCreateRejected =>
            /\ peer.pc = "done"
            /\ peer.exitCode = "1"
            /\ peer.deployRet = "False"
            /\ PeerCallsOf({"upload_file", "create_invalidation"}) = <<>>
            /\ peer.uploaded = <<>>

\* Both probes answered 'not found', both processes submitted create_stack
\* for the same stack name, the service accepted the second process's and
\* rejected the first's: the second deployed, the first exited 1 without upload
C16_Witness ==
    /\ probeAnswer = StackMissing
    /\ peer.probeAnswer = StackMissing
    /\ Len(CallsOf({"create_stack"})) = 1
    /\ PeerCallsOf({"create_stack"}) = CallsOf({"create_stack"})
    /\ CallsOf({"update_stack"}) = <<>>
    /\ PeerCallsOf({"update_stack"}) = <<>>
    /\ peer.createAnswer = Ok
    /\ peer.complete
    /\ peer.uploaded = SampleFiles
    /\ FirstCreateRejected
    /\ exitCode = "1"
    /\ TransferCalls = <<>>

====
